---- MODULE Spec2Model ----
(***************************************************************************)
(* Model of news_ticker.py: a periodic job that polls forum topics for     *)
(* "# headline" posts, keeps per-topic checkpoints (last_seen) and the     *)
(* published list (marquee) in a state file, and pushes the list of the 7  *)
(* most recent unique headlines to a theme setting.                        *)
(*                                                                         *)
(* Text is modelled as sequences of one-character strings, a post's raw    *)
(* body as a sequence of lines.  created_at strings of one format compare  *)
(* lexically like their instants, so they are modelled as naturals; the    *)
(* empty string (the default of p.get("created_at", "")) is 0.             *)
(***************************************************************************)
EXTENDS Integers, Sequences, FiniteSets, TLC

VARIABLES
    cfg,             \* the loaded config record (main line 74)
    disk,            \* content of STATE_PATH: [last_seen, marquee]
    state,           \* main's in-memory state (line 75)
    pc,              \* position of the run inside main
    tix,             \* index into cfg.topics of the topic the loop is at
    all_candidates,  \* line 80
    new_candidates,  \* line 81
    desired,         \* result record of the uniq_limit call (lines 121-125)
    remote,          \* marquee_list setting as last PUT successfully, or NotPushed
    fetched,         \* history: the posts returned by this run's read calls
    disk0,           \* history: content of STATE_PATH when the run started
    nGet, nPut, nSave, \* history: calls issued by this run
    pairs,           \* input of the uniq_limit call under study (SpecUniq)
    text, found,     \* raw text under study and the title extracted (SpecText)
    watched,         \* history: a post a completed run fetched (SpecSeen)
    lost             \* history: the new posts of the run before, if it
                     \* ended in a transport error (SpecLost)

vars == <<cfg, disk, state, pc, tix, all_candidates, new_candidates, desired,
          remote, fetched, disk0, nGet, nPut, nSave, pairs, text, found,
          watched, lost>>

\* what no step of a run touches
aside == <<text, found, watched, lost>>

----------------------------------------------------------------------------
(* Bounds of the model *)

\* topics 1 and 2 have posts 1..MaxPost
MaxPost == 3
\* the wide topic has posts 1..WidePosts
WidePosts == 10
\* longest input of the uniq_limit call under study
MaxPairs == 8
\* longest raw text under study
MaxText == 7

----------------------------------------------------------------------------
(* Sequence helpers *)

Range(s) == {s[i] : i \in 1..Len(s)}

NoDup(s) == \A i, j \in 1..Len(s) : i # j => s[i] # s[j]

Min(a, b) == IF a <= b THEN a ELSE b

\* max() of a non-empty set of integers
Max(S) == CHOOSE m \in S : \A x \in S : x <= m

\* the elements of the integer set S in ascending order
RECURSIVE Ascending(_)
Ascending(S) ==
    IF S = {} THEN <<>>
    ELSE LET m == Max(S) IN Append(Ascending(S \ {m}), m)

----------------------------------------------------------------------------
(* Text: str.strip, str.splitlines and the HEADING pattern *)

\* whitespace characters of the model's alphabet
WS == {" ", "\t"}

RECURSIVE LStrip(_)
LStrip(s) == IF s # <<>> /\ Head(s) \in WS THEN LStrip(Tail(s)) ELSE s

RECURSIVE RStrip(_)
RStrip(s) ==
    IF s # <<>> /\ s[Len(s)] \in WS THEN RStrip(SubSeq(s, 1, Len(s) - 1)) ELSE s

\* str.strip()
strip(s) == RStrip(LStrip(s))

\* str.splitlines(): the lines between "\n", no empty line after a final "\n"
RECURSIVE splitlines(_)
splitlines(raw) ==
    IF raw = <<>> THEN <<>>
    ELSE LET nl == {i \in 1..Len(raw) : raw[i] = "\n"} IN
         IF nl = {} THEN <<raw>>
         ELSE LET i == CHOOSE k \in nl : \A j \in nl : k <= j IN
              <<SubSeq(raw, 1, i - 1)>> \o splitlines(SubSeq(raw, i + 1, Len(raw)))

\* HEADING.match(s) for HEADING = ^#\s+(.+)$ : [matched, group1].
\* \s+ is greedy: it takes the whole run of whitespace after the '#', and gives
\* one character back to (.+) only when nothing else is left.
HEADING(s) ==
    IF Len(s) >= 3 /\ s[1] = "#" /\ s[2] \in WS
    THEN LET run == CHOOSE k \in 1..(Len(s) - 1) :
                       /\ \A i \in 2..(k + 1) : s[i] \in WS
                       /\ (k + 2 <= Len(s) => s[k + 2] \notin WS)
         IN  [matched |-> TRUE,
              group1  |-> IF run + 1 < Len(s)
                          THEN SubSeq(s, run + 2, Len(s))
                          ELSE <<s[Len(s)]>>]
    ELSE [matched |-> FALSE, group1 |-> <<>>]

\* FirstHeading without the break of line 97: the last matching line wins
RECURSIVE LastHeading(_)
LastHeading(lines) ==
    IF lines = <<>> THEN <<>>
    ELSE LET m == HEADING(strip(lines[Len(lines)])) IN
         IF m.matched THEN strip(m.group1)
         ELSE LastHeading(SubSeq(lines, 1, Len(lines) - 1))

\* lines 92-97: the title of the first matching line; <<>> stands for both
\* None and "" (line 98 tests "not title")
RECURSIVE FirstHeading(_)
FirstHeading(lines) ==
    IF lines = <<>> THEN <<>>
    ELSE LET m == HEADING(strip(Head(lines))) IN
         IF m.matched THEN strip(m.group1) ELSE FirstHeading(Tail(lines))

ExtractTitle(raw) == FirstHeading(splitlines(raw))

----------------------------------------------------------------------------
(* The forum: what get_posts can return *)

\* raw text of post pn of topic tid; post 2 of a topic exists in two versions,
\* as written and as edited later
Raw(tid, pn, edited) ==
    IF pn = 1 THEN <<"#", " ", "I">>
    ELSE IF tid = 2 /\ pn = 3
         THEN <<"#", "#", " ", "N", "\n", "#", "N", "\n", "#", " ">>
    ELSE IF pn = 2 /\ ~edited
         THEN <<"t", "\n", " ", "#", " ", "\t", "R", " ", "\n", "#", " ", "X">>
    ELSE IF pn = 2
         THEN <<"#", " ", " ", "\n", "#", "\t", "E", " ", "e", "\n">>
    ELSE <<"#", " ", "H", " ", "w">>

\* created_at of post pn of topic tid
CreatedAt(tid, pn) == tid + pn

Post(tid, pn, edited) ==
    [post_number |-> pn, raw |-> Raw(tid, pn, edited),
     created_at |-> CreatedAt(tid, pn)]

\* the posts numbered in S, as the posts array of a response
PostsOf(tid, S, edited) ==
    LET ns == Ascending(S) IN [i \in 1..Len(ns) |-> Post(tid, ns[i], edited)]

\* all responses of a successful read call for topic tid: any subset of the
\* topic's posts may be visible (posts are deleted and restored), post 2 in
\* either version; of the wide topic, any contiguous window
Responses(tid) ==
    IF tid = 3
    THEN {PostsOf(tid, lo..hi, FALSE) : lo \in 1..WidePosts, hi \in 0..WidePosts}
    ELSE {PostsOf(tid, S, e) : S \in SUBSET (1..MaxPost), e \in BOOLEAN}

----------------------------------------------------------------------------
(* Rendering and keys *)

\* str(tid), the key of the checkpoint map (lines 85, 108)
str(tid) == CASE tid = 1 -> "1" [] tid = 2 -> "2" [] tid = 3 -> "3"

\* line 100-101: '<a href="{base_url}/t/{tid}/{pn}">{title}</a>'; with integer
\* tid and pn the rendered string determines, and is determined by, this tuple
Item(base_url, tid, pn, title) == <<base_url, tid, pn, title>>

\* state["last_seen"].get(key, 0)
Get(last_seen, key) == IF key \in DOMAIN last_seen THEN last_seen[key] ELSE 0

----------------------------------------------------------------------------
(* uniq_limit, lines 110-119 *)

\* the timestamp None of line 122
None == -1

\* the limit passed at lines 123 and 125
Limit == 7

\* x put into the descending sequence s behind every element whose key is
\* not smaller: sorted() is stable, also with reverse=True
InsertDesc(s, x) ==
    LET n == Cardinality({i \in 1..Len(s) : s[i][1] >= x[1]}) IN
    SubSeq(s, 1, n) \o <<x>> \o SubSeq(s, n + 1, Len(s))

RECURSIVE SortedDesc(_)
SortedDesc(ps) ==
    IF ps = <<>> THEN <<>>
    ELSE InsertDesc(SortedDesc(SubSeq(ps, 1, Len(ps) - 1)), ps[Len(ps)])

\* sorted() compares keys as soon as there are two of them, and comparing None
\* with a str or with None raises TypeError
SortRaises(ps) == Len(ps) >= 2 /\ \E i \in 1..Len(ps) : ps[i][1] = None

\* Walk without the test of line 117: the loop never stops at the limit
RECURSIVE WalkNoLimit(_, _, _, _)
WalkNoLimit(sorted, i, result, limit) ==
    IF i > Len(sorted) THEN result
    ELSE IF sorted[i][2] \notin Range(result)
         THEN WalkNoLimit(sorted, i + 1, Append(result, sorted[i][2]), limit)
         ELSE WalkNoLimit(sorted, i + 1, result, limit)

\* the loop of lines 113-118 from position i of the sorted pairs
RECURSIVE Walk(_, _, _, _)
Walk(sorted, i, result, limit) ==
    IF i > Len(sorted) THEN result
    ELSE IF sorted[i][2] \notin Range(result)
         THEN LET r == Append(result, sorted[i][2]) IN
              IF Len(r) = limit THEN r ELSE Walk(sorted, i + 1, r, limit)
         ELSE Walk(sorted, i + 1, result, limit)

\* [exc, items]: the exception raised ("none" when it returns) and the list
uniq_limit(ps, limit) ==
    IF SortRaises(ps) THEN [exc |-> "TypeError", items |-> <<>>]
    ELSE [exc |-> "none", items |-> Walk(SortedDesc(ps), 1, <<>>, limit)]

----------------------------------------------------------------------------
(* Config and state file *)

\* news_ticker_config.json with two topics
MainConfig ==
    [base_url |-> "B", api_key |-> "k", api_username |-> "u",
     component_id |-> "c", topics |-> <<1, 2>>]

\* news_ticker_config.json with the one wide topic
WideConfig ==
    [base_url |-> "B", api_key |-> "k", api_username |-> "u",
     component_id |-> "c", topics |-> <<3>>]

\* the fields main and update_ticker read from the config
RequiredFields == {"base_url", "api_key", "api_username", "component_id", "topics"}

\* config record c without field f
Without(c, f) == [x \in DOMAIN c \ {f} |-> c[x]]

\* the two-topic config, complete or with one required field missing
Configs == {MainConfig} \cup {Without(MainConfig, f) : f \in RequiredFields}

\* c[f] raises no KeyError for the fields in F
Has(c, F) == F \subseteq DOMAIN c

\* STATE_PATH does not exist
NoFile == [exists |-> FALSE]

\* lines 32-40
load_state(file) ==
    IF file.exists
    THEN [last_seen |-> file.last_seen, marquee |-> file.marquee]
    ELSE [last_seen |-> <<>>, marquee |-> <<>>]

\* line 43: the whole file is overwritten
save_state(st) ==
    [exists |-> TRUE, last_seen |-> st.last_seen, marquee |-> st.marquee]

\* d[k] = v on a dict
Put(d, k, v) == [x \in DOMAIN d \cup {k} |-> IF x = k THEN v ELSE d[x]]

----------------------------------------------------------------------------
(* The loop body of main, lines 84-108, for one topic *)

\* HasHeadline without the test of line 89
HasHeadlineAnyPost(p) == ExtractTitle(p.raw) # <<>>

\* lines 88-99: post p yields a candidate
HasHeadline(p) == p.post_number # 1 /\ ExtractTitle(p.raw) # <<>>

\* lines 100-103: the (when, item) pair of post p
PairOf(c, tid, p) ==
    <<p.created_at, Item(c.base_url, tid, p.post_number, ExtractTitle(p.raw))>>

\* the pairs line 103 appends for the posts of one response
AllOf(c, tid, posts) ==
    LET sel == SelectSeq(posts, HasHeadline) IN
    [i \in 1..Len(sel) |-> PairOf(c, tid, sel[i])]

\* IsNew with >= for the > of line 104
IsNewOrEqual(p, seen) == p.post_number >= seen

\* line 104: the post is beyond the checkpoint read at line 85
IsNew(p, seen) == p.post_number > seen

\* the pairs line 105 appends for the posts of one response
NewOf(c, tid, posts, seen) ==
    LET keep(p) == HasHeadline(p) /\ IsNew(p, seen)
        sel == SelectSeq(posts, keep) IN
    [i \in 1..Len(sel) |-> PairOf(c, tid, sel[i])]

\* Checkpointed with the maximum taken over the posts that have a headline
CheckpointedHeadlines(last_seen, tid, posts) ==
    LET sel == SelectSeq(posts, HasHeadline) IN
    IF sel # <<>>
    THEN Put(last_seen, str(tid),
             Max({sel[i].post_number : i \in 1..Len(sel)}))
    ELSE last_seen

\* Checkpointed without the test of line 107, as max(..., default=0)
CheckpointedNoGuard(last_seen, tid, posts) ==
    Put(last_seen, str(tid),
        IF posts = <<>> THEN 0
        ELSE Max({posts[i].post_number : i \in 1..Len(posts)}))

\* Checkpointed with the map rebuilt around the topic's entry alone
CheckpointedAlone(last_seen, tid, posts) ==
    IF posts # <<>>
    THEN [k \in {str(tid)} |->
             Max({posts[i].post_number : i \in 1..Len(posts)})]
    ELSE last_seen

\* lines 107-108: the checkpoint map after the topic's posts were processed
Checkpointed(last_seen, tid, posts) ==
    IF posts # <<>>
    THEN Put(last_seen, str(tid),
             Max({posts[i].post_number : i \in 1..Len(posts)}))
    ELSE last_seen

\* MergeInput with the previous list merged in on both branches
MergeInputKeepPrev(newc, allc, marquee) ==
    (IF newc # <<>> THEN newc ELSE allc)
        \o [i \in 1..Len(marquee) |-> <<None, marquee[i]>>]

\* lines 121-122, 124-125: the pairs handed to uniq_limit
MergeInput(newc, allc, marquee) ==
    IF newc # <<>>
    THEN newc \o [i \in 1..Len(marquee) |-> <<None, marquee[i]>>]
    ELSE allc

\* body of the PUT of update_ticker, lines 64-67; the joined value is kept as
\* the list of its entries
Payload(items) == [name |-> "marquee_list", value |-> items]

NotPushed == [name |-> "marquee_list", value |-> <<>>]

----------------------------------------------------------------------------
(* Actions of a run *)

Ended == {"idle", "done", "http_error", "type_error", "key_error"}

\* lines 74-83: a run starts, config and state are loaded; lines 77 and 83
\* raise KeyError when api_key, api_username or topics is missing
StartCore ==
    /\ pc \in Ended
    /\ state' = load_state(disk)
    /\ disk0' = disk
    /\ all_candidates' = <<>>
    /\ new_candidates' = <<>>
    /\ fetched' = <<>>
    /\ desired' = [exc |-> "none", items |-> <<>>]
    /\ pairs' = <<>>
    /\ tix' = 1
    /\ nGet' = 0 /\ nPut' = 0 /\ nSave' = 0
    /\ pc' = IF ~Has(cfg, {"api_key", "api_username", "topics"}) THEN "key_error"
             ELSE IF cfg.topics = <<>> THEN "select" ELSE "fetch"
    /\ watched' = [watched EXCEPT !.armed = watched.set]
    /\ UNCHANGED <<cfg, disk, remote, text, found>>

StartRun ==
    /\ StartCore
    /\ lost' = {}

\* lines 84-108: get_posts returns posts; the topic is processed
FetchOK ==
    /\ pc = "fetch"
    /\ Has(cfg, {"base_url"})
    /\ LET tid == cfg.topics[tix] IN
       \E posts \in Responses(tid) :
          LET seen == Get(state.last_seen, str(tid)) IN
          /\ all_candidates' = all_candidates \o AllOf(cfg, tid, posts)
          /\ new_candidates' = new_candidates \o NewOf(cfg, tid, posts, seen)
          /\ state' = [state EXCEPT
                          !.last_seen = Checkpointed(@, tid, posts)]
          /\ fetched' = Append(fetched, posts)
    /\ nGet' = nGet + 1
    /\ tix' = tix + 1
    /\ pc' = IF tix = Len(cfg.topics) THEN "select" ELSE "fetch"
    /\ UNCHANGED <<cfg, disk, desired, remote, disk0, nPut, nSave, pairs>>
    /\ UNCHANGED aside

\* FetchFail with the error swallowed: the loop goes on to the next topic
FetchFailContinue ==
    /\ pc = "fetch"
    /\ Has(cfg, {"base_url"})
    /\ nGet' = nGet + 1
    /\ tix' = tix + 1
    /\ pc' = IF tix = Len(cfg.topics) THEN "select" ELSE "fetch"
    /\ UNCHANGED <<cfg, disk, state, all_candidates, new_candidates,
                   desired, remote, fetched, disk0, nPut, nSave, pairs>>
    /\ UNCHANGED aside

\* FetchFail with the state saved on the way out
FetchFailSaving ==
    /\ pc = "fetch"
    /\ Has(cfg, {"base_url"})
    /\ nGet' = nGet + 1
    /\ pc' = "http_error"
    /\ disk' = save_state(state)
    /\ nSave' = nSave + 1
    /\ UNCHANGED <<cfg, state, tix, all_candidates, new_candidates,
                   desired, remote, fetched, disk0, nPut, pairs>>
    /\ UNCHANGED aside

\* line 84, lines 48-49: the read call raises (transport error, timeout, status)
FetchFail ==
    /\ pc = "fetch"
    /\ Has(cfg, {"base_url"})
    /\ nGet' = nGet + 1
    /\ pc' = "http_error"
    /\ UNCHANGED <<cfg, disk, state, tix, all_candidates, new_candidates,
                   desired, remote, fetched, disk0, nPut, nSave, pairs>>
    /\ UNCHANGED aside

\* lines 121-125: the merge policy and uniq_limit
Select ==
    /\ pc = "select"
    /\ pairs' = MergeInput(new_candidates, all_candidates, state.marquee)
    /\ desired' = uniq_limit(pairs', Limit)
    /\ pc' = IF desired'.exc = "none" THEN "push" ELSE "type_error"
    /\ UNCHANGED <<cfg, disk, state, tix, all_candidates, new_candidates,
                   remote, fetched, disk0, nGet, nPut, nSave>>
    /\ UNCHANGED aside

\* PushOK without line 129: the state is saved with the list it was loaded with
PushOKStale ==
    /\ pc = "push"
    /\ Has(cfg, {"base_url", "component_id"})
    /\ nPut' = nPut + 1
    /\ remote' = Payload(desired.items)
    /\ state' = state
    /\ disk' = save_state(state')
    /\ nSave' = nSave + 1
    /\ pc' = "done"
    /\ UNCHANGED <<cfg, tix, all_candidates, new_candidates, desired, fetched,
                   disk0, nGet, pairs>>
    /\ UNCHANGED aside

\* lines 128-130: the write call succeeds, the state is saved
PushOK ==
    /\ pc = "push"
    /\ Has(cfg, {"base_url", "component_id"})
    /\ nPut' = nPut + 1
    /\ remote' = Payload(desired.items)
    /\ state' = [state EXCEPT !.marquee = desired.items]
    /\ disk' = save_state(state')
    /\ nSave' = nSave + 1
    /\ pc' = "done"
    /\ UNCHANGED <<cfg, tix, all_candidates, new_candidates, desired, fetched,
                   disk0, nGet, pairs>>
    /\ UNCHANGED aside

\* PushFail with the state saved on the way out
PushFailSaving ==
    /\ pc = "push"
    /\ Has(cfg, {"base_url", "component_id"})
    /\ nPut' = nPut + 1
    /\ pc' = "http_error"
    /\ disk' = save_state(state)
    /\ nSave' = nSave + 1
    /\ UNCHANGED <<cfg, state, tix, all_candidates, new_candidates,
                   desired, remote, fetched, disk0, nGet, pairs>>
    /\ UNCHANGED aside

\* line 128, lines 68-69: the write call raises
PushFail ==
    /\ pc = "push"
    /\ Has(cfg, {"base_url", "component_id"})
    /\ nPut' = nPut + 1
    /\ pc' = "http_error"
    /\ UNCHANGED <<cfg, disk, state, tix, all_candidates, new_candidates,
                   desired, remote, fetched, disk0, nGet, nSave, pairs>>
    /\ UNCHANGED aside

InitRun(c) ==
    /\ cfg = c
    /\ disk = NoFile
    /\ state = load_state(NoFile)
    /\ pc = "idle"
    /\ tix = 1
    /\ all_candidates = <<>>
    /\ new_candidates = <<>>
    /\ desired = [exc |-> "none", items |-> <<>>]
    /\ remote = NotPushed
    /\ fetched = <<>>
    /\ disk0 = NoFile
    /\ nGet = 0 /\ nPut = 0 /\ nSave = 0
    /\ pairs = <<>>
    /\ text = <<>>
    /\ found = <<>>
    /\ watched = [set |-> FALSE, tid |-> 0, pn |-> 0, armed |-> FALSE]
    /\ lost = {}

Init == InitRun(MainConfig)

Next ==
    \/ StartRun
    \/ FetchOK
    \/ FetchFail
    \/ Select
    \/ PushOK
    \/ PushFail

Spec == Init /\ [][Next]_vars

\* line 84: cfg["base_url"] raises KeyError before get_posts is called
FetchKeyError ==
    /\ pc = "fetch"
    /\ ~Has(cfg, {"base_url"})
    /\ pc' = "key_error"
    /\ UNCHANGED <<cfg, disk, state, tix, all_candidates, new_candidates,
                   desired, remote, fetched, disk0, nGet, nPut, nSave, pairs>>
    /\ UNCHANGED aside

\* line 128, line 57: cfg['base_url'] or cfg['component_id'] raises KeyError
\* in update_ticker, before the PUT
PushKeyError ==
    /\ pc = "push"
    /\ ~Has(cfg, {"base_url", "component_id"})
    /\ pc' = "key_error"
    /\ UNCHANGED <<cfg, disk, state, tix, all_candidates, new_candidates,
                   desired, remote, fetched, disk0, nGet, nPut, nSave, pairs>>
    /\ UNCHANGED aside

InitCfg == \E c \in Configs : InitRun(c)

NextCfg ==
    \/ Next
    \/ FetchKeyError
    \/ PushKeyError

\* the job under every config of Configs
SpecCfg == InitCfg /\ [][NextCfg]_vars

\* the same job configured with the wide topic
InitWide == InitRun(WideConfig)

SpecWide == InitWide /\ [][Next]_vars

----------------------------------------------------------------------------
(* Runs observed across run boundaries *)

\* an observer notes one post that the run just completed has fetched
WatchFetched ==
    /\ pc = "done"
    /\ ~watched.set
    /\ \E t \in 1..Len(fetched) : \E i \in 1..Len(fetched[t]) :
          watched' = [set |-> TRUE, tid |-> cfg.topics[t],
                      pn |-> fetched[t][i].post_number, armed |-> FALSE]
    /\ UNCHANGED <<cfg, disk, state, pc, tix, all_candidates, new_candidates,
                   desired, remote, fetched, disk0, nGet, nPut, nSave, pairs,
                   text, found, lost>>

\* the (topic, post number) of the posts the run classified as new
NewPosts == {<<new_candidates[k][2][2], new_candidates[k][2][3]>> :
                k \in 1..Len(new_candidates)}

\* a run starts; the observer keeps the new posts of the run before when
\* that run ended in a transport error
StartRunAfter ==
    /\ StartCore
    /\ lost' = IF pc = "http_error" THEN NewPosts ELSE {}

NextLost ==
    \/ StartRunAfter
    \/ FetchOK
    \/ FetchFail
    \/ Select
    \/ PushOK
    \/ PushFail

\* the two-topic job, with the new posts of an aborted run followed into
\* the next run
SpecLost == Init /\ [][NextLost]_vars

NextSeen ==
    \/ Next
    \/ WatchFetched

\* the job on the wide topic, with one fetched post followed over the runs
SpecSeen == InitWide /\ [][NextSeen]_vars

----------------------------------------------------------------------------
(* uniq_limit as a function: calls on inputs grown pair by pair *)

\* the k-th headline item of the inputs under study
U(k) == Item("B", 1, k + 1, <<"H">>)

DistinctItems(ps) == {ps[i][2] : i \in 1..Len(ps)}

\* the pairs an input is extended with: an item not yet in it, created at 1,
\* at 2 or without timestamp, or its first item again, created at 2
PairChoices(ps) ==
    LET fresh == U(Cardinality(DistinctItems(ps)) + 1) IN
    {<<1, fresh>>, <<2, fresh>>, <<None, fresh>>}
        \cup (IF ps = <<>> THEN {} ELSE {<<2, ps[1][2]>>})

\* uniq_limit(pairs + [p], 7), called on its own before the job runs
CallUniq ==
    /\ pc = "idle"
    /\ Len(pairs) < MaxPairs
    /\ \E p \in PairChoices(pairs) :
          /\ pairs' = Append(pairs, p)
          /\ desired' = uniq_limit(pairs', Limit)
    /\ UNCHANGED <<cfg, disk, state, pc, tix, all_candidates, new_candidates,
                   remote, fetched, disk0, nGet, nPut, nSave>>
    /\ UNCHANGED aside

NextUniq ==
    \/ CallUniq
    \/ Next

\* direct calls of uniq_limit, and the runs of the job on the wide topic
SpecUniq == InitWide /\ [][NextUniq]_vars

----------------------------------------------------------------------------
(* Headline extraction as a function: raw texts grown character by character *)

\* the characters raw texts under study are made of
Chars == {"#", " ", "\t", "a", "\n"}

\* lines 91-97 on the text extended by one character
TypeChar ==
    /\ pc = "idle"
    /\ Len(text) < MaxText
    /\ \E c \in Chars :
          /\ text' = Append(text, c)
          /\ found' = ExtractTitle(text')
    /\ UNCHANGED <<cfg, disk, state, pc, tix, all_candidates, new_candidates,
                   desired, remote, fetched, disk0, nGet, nPut, nSave, pairs,
                   watched, lost>>

NextText == TypeChar

SpecText == Init /\ [][NextText]_vars

----------------------------------------------------------------------------
(* Vocabulary of the properties *)

\* positions at which a line of raw starts, and where the line ends
LineStarts(raw) ==
    ({1} \cup {i + 1 : i \in {j \in 1..Len(raw) : raw[j] = "\n"}})
        \cap (1..Len(raw))

LineEnd(raw, s) ==
    LET nl == {j \in s..Len(raw) : raw[j] = "\n"} IN
    IF nl = {} THEN Len(raw) ELSE (CHOOSE j \in nl : \A k \in nl : j <= k) - 1

\* positions of the non-whitespace characters of the line starting at s
Ink(raw, s) == {i \in s..LineEnd(raw, s) : raw[i] \notin WS}

MinOf(S) == CHOOSE m \in S : \A x \in S : m <= x

\* the line starting at s is, once trimmed, one '#', whitespace, content
IsHeadingLine(raw, s) ==
    /\ Ink(raw, s) # {}
    /\ LET a == MinOf(Ink(raw, s)) IN
       /\ raw[a] = "#"
       /\ a + 1 <= LineEnd(raw, s)
       /\ raw[a + 1] \in WS
       /\ \E i \in Ink(raw, s) : i > a + 1

\* the content of the heading line starting at s
Content(raw, s) ==
    LET a == MinOf(Ink(raw, s))
        rest == Ink(raw, s) \ {a} IN
    SubSeq(raw, MinOf(rest), Max(rest))

HeadingLines(raw) == {s \in LineStarts(raw) : IsHeadingLine(raw, s)}

\* the state record as a run would load it now, and as this run loaded it
persisted == load_state(disk)
previous == load_state(disk0)

\* uniq_limit has just been called by the run
Selected == pc \in {"push", "type_error"}

\* the most recent timestamp item x carries in ps (None is -1, below all)
BestTs(ps, x) == Max({ps[i][1] : i \in {j \in 1..Len(ps) : ps[j][2] = x}})

\* r lists, without repetition and most recent first, the (at most 7) most
\* recent items of ps; an item without timestamp ranks below every other
MostRecentFirst(r, ps) ==
    /\ NoDup(r)
    /\ Range(r) \subseteq DistinctItems(ps)
    /\ Len(r) = Min(7, Cardinality(DistinctItems(ps)))
    /\ \A i, j \in 1..Len(r) : i < j => BestTs(ps, r[i]) >= BestTs(ps, r[j])
    /\ \A x \in DistinctItems(ps) \ Range(r) :
          \A y \in Range(r) : BestTs(ps, x) <= BestTs(ps, y)

ItemsOfPairs(ps) == [i \in 1..Len(ps) |-> ps[i][2]]

\* s without the later occurrences of its elements
RECURSIVE Dedup(_)
Dedup(s) ==
    IF s = <<>> THEN <<>>
    ELSE LET d == Dedup(SubSeq(s, 1, Len(s) - 1)) IN
         IF s[Len(s)] \in Range(d) THEN d ELSE Append(d, s[Len(s)])

\* post number in a rendered item
PostNumberOf(item) == item[3]

----------------------------------------------------------------------------
(* Properties *)

\* C1: after every completed run, every topic's persisted checkpoint is at
\* least its persisted value before that run.
C1_CheckpointMonotone ==
    pc = "done" =>
        \A k \in DOMAIN previous.last_seen :
            /\ k \in DOMAIN persisted.last_seen
            /\ persisted.last_seen[k] >= previous.last_seen[k]

\* C2: when a read call or the write call of a run fails, the state file is
\* what it was when the run started.
C2_FailureKeepsDisk == pc = "http_error" => disk = disk0

\* a read call failed after an earlier topic had advanced its checkpoint in memory
C2_Witness ==
    /\ pc = "http_error"
    /\ nGet >= 2
    /\ nPut = 0
    /\ state.last_seen # previous.last_seen

\* C3: a run in which no forum call failed has pushed the computed list with
\* exactly one write call and persisted the checkpoints and that list.
C3_AlwaysPushed ==
    pc \in {"done", "type_error"} =>
        /\ nGet = Len(cfg.topics)
        /\ nPut = 1
        /\ nSave = 1
        /\ remote = Payload(desired.items)
        /\ persisted = [last_seen |-> state.last_seen, marquee |-> desired.items]

\* C4: a list uniq_limit returns has at most 7 entries, all distinct, and so
\* have the pushed list and the persisted published list.
C4_AtMost7Distinct ==
    /\ desired.exc = "none" => Len(desired.items) <= 7 /\ NoDup(desired.items)
    /\ Len(remote.value) <= 7 /\ NoDup(remote.value)
    /\ Len(persisted.marquee) <= 7 /\ NoDup(persisted.marquee)

\* uniq_limit was called on its own with more than 7 distinct items and cut
\* the list at 7
C4_Witness ==
    /\ pc = "idle"
    /\ Cardinality(DistinctItems(pairs)) > 7
    /\ desired.exc = "none"
    /\ Len(desired.items) = 7

\* C5: on an input that mixes timestamped and untimestamped pairs uniq_limit
\* returns the timestamped items most recent first, and untimestamped items
\* only behind them and only as far as room is left below 7.
C5_UntimestampedLast ==
    (/\ \E i \in 1..Len(pairs) : pairs[i][1] = None
     /\ \E i \in 1..Len(pairs) : pairs[i][1] # None)
    => /\ desired.exc = "none"
       /\ MostRecentFirst(desired.items, pairs)

\* C6: with new candidates, the list is the distinct new items most recent
\* first, then the previous list's entries not yet present, in their order,
\* cut at 7.
C6_NewThenPrevious ==
    (Selected /\ new_candidates # <<>>) =>
        LET m == Dedup(ItemsOfPairs(SortedDesc(new_candidates))
                       \o previous.marquee) IN
        /\ desired.exc = "none"
        /\ desired.items = SubSeq(m, 1, Min(7, Len(m)))

\* C7: without new candidates the list is built from all_candidates alone:
\* its (at most 7) most recent distinct items, most recent first, whatever
\* the previous published list holds.
C7_RebuildFromAll ==
    (Selected /\ new_candidates = <<>>) =>
        /\ desired.exc = "none"
        /\ MostRecentFirst(desired.items, all_candidates)
        /\ desired = uniq_limit(all_candidates, 7)

\* no post is new, and an entry of the previous list is no longer fetched
C7_Witness ==
    /\ pc = "push"
    /\ new_candidates = <<>>
    /\ all_candidates # <<>>
    /\ \E i \in 1..Len(previous.marquee) :
          previous.marquee[i] \notin DistinctItems(all_candidates)

\* C8: with more than 7 distinct new headlines in a run, the list is exactly
\* the 7 most recent of them, most recent first, whatever the previous list.
C8_SevenMostRecent ==
    (Selected /\ Cardinality(DistinctItems(new_candidates)) > 7) =>
        /\ desired.exc = "none"
        /\ Len(desired.items) = 7
        /\ MostRecentFirst(desired.items, new_candidates)

\* C9: a read call that returns no posts leaves the checkpoint map and both
\* candidate lists as they are, and the run goes on to the next topic.
C9_EmptyFetchKeepsCheckpoint ==
    [][(pc = "fetch" /\ fetched' = Append(fetched, <<>>)) =>
          /\ state' = state
          /\ all_candidates' = all_candidates
          /\ new_candidates' = new_candidates
          /\ disk' = disk
          /\ tix' = tix + 1
          /\ pc' \in {"fetch", "select"}]_vars

\* a topic that has a checkpoint was just fetched with zero posts
C9_Witness ==
    /\ pc \in {"fetch", "select"}
    /\ fetched # <<>>
    /\ fetched[Len(fetched)] = <<>>
    /\ Get(state.last_seen, str(cfg.topics[Len(fetched)])) > 0

\* C10: no candidate, and no entry of a computed, pushed or persisted list,
\* comes from a post with post_number 1.
C10_FirstPostNeverCandidate ==
    /\ \A i \in 1..Len(all_candidates) : PostNumberOf(all_candidates[i][2]) # 1
    /\ \A i \in 1..Len(new_candidates) : PostNumberOf(new_candidates[i][2]) # 1
    /\ \A i \in 1..Len(desired.items) : PostNumberOf(desired.items[i]) # 1
    /\ \A i \in 1..Len(remote.value) : PostNumberOf(remote.value[i]) # 1
    /\ \A i \in 1..Len(persisted.marquee) : PostNumberOf(persisted.marquee[i]) # 1

\* a fetched post 1 whose raw text has a heading line was processed as new
C10_Witness ==
    /\ pc = "select"
    /\ \E t \in 1..Len(fetched) : \E i \in 1..Len(fetched[t]) :
          /\ fetched[t][i].post_number = 1
          /\ ExtractTitle(fetched[t][i].raw) # <<>>
          /\ Get(previous.last_seen, str(cfg.topics[t])) = 0

\* C11: under a config that lacks a required field, a run issues no read call
\* and no write call.
C11_NoCallWithoutField ==
    ~Has(cfg, RequiredFields) => nGet = 0 /\ nPut = 0

\* C12: the title extracted from a raw text is the content of its first
\* line that, trimmed, is one '#', whitespace and non-empty content; without
\* such a line there is no title.
C12_FirstHeadingLine ==
    found = IF HeadingLines(text) = {} THEN <<>>
            ELSE Content(text, MinOf(HeadingLines(text)))

\* the text has two heading lines of different content, the first was taken
C12_Witness ==
    /\ \E s1, s2 \in HeadingLines(text) :
          /\ s1 < s2
          /\ Content(text, s1) # Content(text, s2)
    /\ found # <<>>
    /\ found = Content(text, MinOf(HeadingLines(text)))

\* the checkpoint topic number t of the config had when the run started
PriorCheckpoint(t) == Get(previous.last_seen, str(cfg.topics[t]))

\* the pairs owed to the t-th response of the run: one per post other than
\* post 1 that has a headline, in the order fetched; with onlyNew, only of
\* the posts beyond the prior checkpoint
OwedPairs(t, onlyNew) ==
    LET owed(p) == /\ p.post_number # 1
                   /\ ExtractTitle(p.raw) # <<>>
                   /\ (onlyNew => p.post_number > PriorCheckpoint(t))
        sel == SelectSeq(fetched[t], owed) IN
    [i \in 1..Len(sel) |->
        <<sel[i].created_at,
          <<cfg.base_url, cfg.topics[t], sel[i].post_number,
            ExtractTitle(sel[i].raw)>> >>]

RECURSIVE OwedUpTo(_, _)
OwedUpTo(n, onlyNew) ==
    IF n = 0 THEN <<>> ELSE OwedUpTo(n - 1, onlyNew) \o OwedPairs(n, onlyNew)

\* C13: all_candidates holds the pair of every fetched post other than post 1
\* that has a headline, new_candidates those of them whose post number is
\* above the topic's prior checkpoint (0 without entry).
C13_NewIffBeyondCheckpoint ==
    /\ all_candidates = OwedUpTo(Len(fetched), FALSE)
    /\ new_candidates = OwedUpTo(Len(fetched), TRUE)
    /\ Range(new_candidates) \subseteq Range(all_candidates)

\* a headline post numbered exactly as the checkpoint was fetched and is not
\* new, while another post of the run is
C13_Witness ==
    /\ pc = "select"
    /\ new_candidates # <<>>
    /\ \E t \in 1..Len(fetched) : \E i \in 1..Len(fetched[t]) :
          /\ fetched[t][i].post_number = PriorCheckpoint(t)
          /\ fetched[t][i].post_number # 1
          /\ ExtractTitle(fetched[t][i].raw) # <<>>
          /\ \A k \in 1..Len(new_candidates) :
                ~(/\ new_candidates[k][2][2] = cfg.topics[t]
                  /\ new_candidates[k][2][3] = PriorCheckpoint(t))

PostNumbers(posts) == {posts[i].post_number : i \in 1..Len(posts)}

\* C14: once a topic's response with at least one post is processed, the
\* topic's in-memory checkpoint is the highest post number of the response,
\* post 1 and posts without headline included.
C14_CheckpointIsMaxFetched ==
    \A t \in 1..Len(fetched) :
        fetched[t] # <<>> =>
            /\ str(cfg.topics[t]) \in DOMAIN state.last_seen
            /\ \A n \in PostNumbers(fetched[t]) :
                  n <= state.last_seen[str(cfg.topics[t])]
            /\ state.last_seen[str(cfg.topics[t])] \in PostNumbers(fetched[t])

\* a topic without checkpoint returned posts 1, 2, 3 of which only post 2
\* yields a headline: checkpoint 3, one candidate
C14_Witness ==
    /\ pc = "select"
    /\ Len(fetched) = 2
    /\ fetched[1] = <<>>
    /\ PostNumbers(fetched[2]) = {1, 2, 3}
    /\ str(cfg.topics[2]) \notin DOMAIN previous.last_seen
    /\ state.last_seen[str(cfg.topics[2])] = 3
    /\ Len(all_candidates) = 1
    /\ all_candidates[1][2][3] = 2
    /\ new_candidates = all_candidates

\* C15: in a run the read calls come one by one in config order, the one
\* write call only after every read call succeeded, the save only after the
\* write call succeeded; once a call failed, the run issues no call and
\* saves nothing.
C15_ReadsThenWriteThenSave ==
    /\ [](/\ nPut <= 1 /\ nSave <= 1
          /\ Len(fetched) <= nGet /\ nGet <= Len(fetched) + 1
          /\ \A t \in 1..Len(fetched) : fetched[t] \in Responses(cfg.topics[t])
          /\ (pc = "fetch" => tix = nGet + 1)
          /\ (nGet = Len(fetched) + 1 => pc = "http_error" /\ nPut = 0)
          /\ (nPut = 1 => Len(fetched) = Len(cfg.topics) /\ nGet = Len(fetched))
          /\ (nSave = 1 => nPut = 1 /\ pc = "done"))
    /\ [][/\ (disk' # disk => pc = "push" /\ pc' = "done" /\ nPut' = 1)
          /\ (pc = "http_error" =>
                 /\ pc' \in {"fetch", "select"}
                 /\ nGet' = 0 /\ nPut' = 0 /\ nSave' = 0
                 /\ disk' = disk)]_vars

\* the write call failed after every read call had succeeded
C15_Witness ==
    /\ pc = "http_error"
    /\ nPut = 1
    /\ nGet = Len(cfg.topics)
    /\ Len(fetched) = Len(cfg.topics)
    /\ nSave = 0

\* the run has classified post pn of topic tid as new
ClassifiedNew(tid, pn) ==
    \E k \in 1..Len(new_candidates) :
        new_candidates[k][2][2] = tid /\ new_candidates[k][2][3] = pn

\* C16: a post that a completed run has fetched is not classified as new by
\* a later run that completes.
C16_AnnouncedOnce ==
    (pc = "done" /\ watched.armed) => ~ClassifiedNew(watched.tid, watched.pn)

\* the run has fetched post pn of topic tid, and the post has a headline
FetchedWithHeadline(tid, pn) ==
    \E t \in 1..Len(fetched) : \E i \in 1..Len(fetched[t]) :
        /\ cfg.topics[t] = tid
        /\ fetched[t][i].post_number = pn
        /\ pn # 1
        /\ ExtractTitle(fetched[t][i].raw) # <<>>

\* C17: a post that was new in a run ended by a transport error is new
\* again in the next run, if that run fetches it with a headline.
C17_NotLostToAbort ==
    \A q \in lost :
        FetchedWithHeadline(q[1], q[2]) => ClassifiedNew(q[1], q[2])

\* the run before advanced a checkpoint in memory and was aborted; this run
\* fetched one of its new posts again
C17_Witness ==
    /\ pc = "select"
    /\ \E q \in lost :
          /\ FetchedWithHeadline(q[1], q[2])
          /\ ClassifiedNew(q[1], q[2])
          /\ q[2] > Get(previous.last_seen, str(q[1]))
          /\ q[2] <= Get(state.last_seen, str(q[1]))

\* the checkpoint map m2 differs from m1 at most at key
SameExceptAt(m1, m2, key) ==
    \A k \in (DOMAIN m1 \cup DOMAIN m2) \ {key} :
        /\ k \in DOMAIN m1
        /\ k \in DOMAIN m2
        /\ m1[k] = m2[k]

\* C18: processing a topic's response changes no other topic's checkpoint
\* entry, so every topic not yet processed in the run still has the
\* checkpoint the run loaded.
C18_OtherCheckpointsKept ==
    /\ [](pc = "fetch" =>
             \A t \in tix..Len(cfg.topics) :
                 Get(state.last_seen, str(cfg.topics[t])) = PriorCheckpoint(t))
    /\ [][Len(fetched') = Len(fetched) + 1 =>
             SameExceptAt(state.last_seen, state'.last_seen,
                          str(cfg.topics[tix]))]_vars

\* the first topic's checkpoint was moved by its response while the second
\* topic, not yet processed, has a checkpoint from an earlier run
C18_Witness ==
    /\ pc = "fetch"
    /\ tix = 2
    /\ Get(state.last_seen, str(cfg.topics[1])) # PriorCheckpoint(1)
    /\ str(cfg.topics[2]) \in DOMAIN state.last_seen
    /\ PriorCheckpoint(2) > 1

\* the list carried by the most recent successful write call, empty before
\* the first one
LastPushed == remote.value

\* C19: whenever a run has ended, completed or aborted, the persisted
\* list is the list of the most recent successful write call, or empty if
\* there was none.
C19_RecordMatchesRemote ==
    pc \in Ended => persisted.marquee = LastPushed

\* an aborted run that had selected another list than the one pushed by an
\* earlier run
C19_Witness ==
    /\ pc = "http_error"
    /\ nPut = 1
    /\ remote.value # <<>>
    /\ desired.items # remote.value
    /\ persisted.marquee = remote.value

====
